---- MODULE Spec2Model ----
(***************************************************************************)
(* A model of lineqpp, the linear equation preprocessor: the equation      *)
(* solver of src/lineqpp/lineqpp.lua (lines 1-562, the solver the C        *)
(* interface loads) driven by the parser actions of the C interface        *)
(* (src/unnamed/part_000) in the order the grammar of src/parser.y calls   *)
(* them.                                                                   *)
(*                                                                         *)
(* Numbers.  Lua numbers are doubles; the model computes with exact        *)
(* rationals <<n, d>> (d > 0, lowest terms), so two numbers are equal in   *)
(* the model exactly when they are equal as fractions.  Rounding of        *)
(* doubles is not modelled.                                                *)
(*                                                                         *)
(* Objects.  A Lua table is a mutable object.  variable_part returns the   *)
(* table stored in env itself, and Linear.subst deletes a term of that     *)
(* table in place before it builds the replacement.  A polynomial held on  *)
(* the expression stack therefore carries an "alias" field: the env key    *)
(* whose table it is, or NoKey for a table nobody else holds.              *)
(***************************************************************************)
EXTENDS Integers, Sequences, FiniteSets, TLC

\* ---------------------------------------------------------------- bounds

\* Number of '=' signs (calls of equation) the input may hold.
MaxEqs == 2

\* Number of occurrences of the token ? the input may hold.
MaxAnon == 1

\* Greatest number written in the single statements of SpecExp.
MaxLit == 2

\* Greatest number of lines of an input of SpecText
MaxLines == 4

\* Number of occurrences of the token ? an input of SpecText may hold.
MaxAvars == 2

\* ------------------------------------------------------- rational numbers

Abs(n) == IF n < 0 THEN -n ELSE n

RECURSIVE GCD(_, _)
GCD(a, b) == IF b = 0 THEN a ELSE GCD(b, a % b)

\* The fraction n/d in lowest terms with a positive denominator.  The
\* doubles that are no fractions have denominator 0: <<1, 0>> is inf,
\* <<-1, 0>> is -inf and <<0, 0>> is nan.  The sign of a zero is not kept.
Norm(n, d) ==
    IF d = 0
    THEN <<IF n > 0 THEN 1 ELSE IF n < 0 THEN -1 ELSE 0, 0>>
    ELSE LET g == GCD(Abs(n), Abs(d))
             s == IF d < 0 THEN -1 ELSE 1
         IN  <<(s * n) \div g, (s * d) \div g>>

R(n) == <<n, 1>>
RNeg(a) == <<-a[1], a[2]>>
RAdd(a, b) ==
    IF a[2] = 0 \/ b[2] = 0
    THEN IF a[2] = 0 /\ b[2] = 0
         THEN (IF a = b THEN a ELSE <<0, 0>>)
         ELSE (IF a[2] = 0 THEN a ELSE b)
    ELSE Norm(a[1] * b[2] + b[1] * a[2], a[2] * b[2])
RSub(a, b) == RAdd(a, RNeg(b))
RMul(a, b) == Norm(a[1] * b[1], a[2] * b[2])
\* 1 / b
RInv(b) ==
    IF b[1] = 0 THEN Norm(b[2], 0)
    ELSE IF b[1] < 0 THEN <<-b[2], -b[1]>> ELSE <<b[2], b[1]>>
RDiv(a, b) == RMul(a, RInv(b))
RAbs(a) == <<Abs(a[1]), a[2]>>
RLess(a, b) == a[1] * b[2] < b[1] * a[2]

\* tol = 1.0e-6
TolDen == 1000000

\* math.abs(x) < tol, computed without leaving 32 bits:
\* |n|/d < 1/TolDen  iff  d > |n| * TolDen.
is_zero(x) ==
    LET n == Abs(x[1])
        q == x[2] \div TolDen
    IN  q > n \/ (q = n /\ x[2] % TolDen > 0)

num_zap(x) == IF is_zero(x) THEN R(0) ELSE x

\* string.format("%.4f", x): the decimal string with four fractional
\* digits, as its sign and its digits read as a number of ten-thousandths
\* (|x| rounded to the nearest ten-thousandth; "-0.0000" keeps its sign).
\* digits is -1 for "inf" and -2 for "nan" (printed with either sign).
FracDigits == 10000

s(x) ==
    IF x[2] = 0
    THEN [neg |-> x[1] < 0, digits |-> IF x[1] = 0 THEN -2 ELSE -1]
    ELSE LET n == Abs(x[1])
             q == (2 * n * FracDigits + x[2]) \div (2 * x[2])
         IN  [neg |-> x[1] < 0, digits |-> q]

\* ------------------------------------------------------ translation table

\* The key of the real or imaginary part of a variable: var.."#x",
\* var.."#y".  Function names are keys with an empty suffix.
Key(name, sfx) == <<name, sfx>>
NoKey == Key("", "")

\* Mutant of solved: the entry is put in a new table.
solved_fresh(translation, v, x) == [k \in {v} |-> s(num_zap(x))]

\* solved(v, x): translation[v] = s(zap(x))
solved(translation, v, x) ==
    [k \in DOMAIN translation \cup {v} |->
        IF k = v THEN s(num_zap(x)) ELSE translation[k]]

\* ------------------------------------------------------ linear polynomials

NoTerms == [v \in {} |-> R(0)]

\* linear(c, ls): a new table, held by nobody else.
linear(c, ls) == [c |-> c, ls |-> ls, alias |-> NoKey]

\* Mutant of Linear_zap: the constant term is left as it is.
Linear_zap_terms_only(p) ==
    [p EXCEPT !.ls = [v \in {w \in DOMAIN p.ls : ~is_zero(p.ls[w])} |-> p.ls[v]]]

\* Linear.zap, as the value the table has afterwards.
Linear_zap(p) ==
    [p EXCEPT !.ls = [v \in {w \in DOMAIN p.ls : ~is_zero(p.ls[w])} |-> p.ls[v]],
              !.c = num_zap(p.c)]

size(t) == Cardinality(DOMAIN t)

\* Linear.number: false, or the constant (a number, 0 included, is true
\* in Lua).
IsNumber(p) == size(p.ls) = 0

Linear_add(p1, p2) ==
    linear(RAdd(p1.c, p2.c),
           [v \in DOMAIN p1.ls \cup DOMAIN p2.ls |->
               IF v \in DOMAIN p1.ls
               THEN IF v \in DOMAIN p2.ls
                    THEN RAdd(p1.ls[v], p2.ls[v])
                    ELSE p1.ls[v]
               ELSE p2.ls[v]])

Linear_sub(p1, p2) ==
    linear(RSub(p1.c, p2.c),
           [v \in DOMAIN p1.ls \cup DOMAIN p2.ls |->
               IF v \in DOMAIN p1.ls
               THEN IF v \in DOMAIN p2.ls
                    THEN RSub(p1.ls[v], p2.ls[v])
                    ELSE p1.ls[v]
               ELSE RNeg(p2.ls[v])])

Linear_unm(p) ==
    linear(RNeg(p.c), [v \in DOMAIN p.ls |-> RNeg(p.ls[v])])

\* Linear.__mul raises "muliplier and multiplicand both not a number"
\* unless one operand is a number.
Linear_mul_ok(p1, p2) == IsNumber(p1) \/ IsNumber(p2)

Linear_mul(p1, p2) ==
    LET c1 == IF IsNumber(p1) THEN p1.c ELSE p2.c
        q == IF IsNumber(p1) THEN p2 ELSE p1
    IN  linear(RMul(c1, q.c), [v \in DOMAIN q.ls |-> RMul(c1, q.ls[v])])

\* Linear.__div raises "divisor is not a number" unless p2 is a number.
Linear_div_ok(p1, p2) == IsNumber(p2)

\* linear(1 / c2) * p1
Linear_div(p1, p2) == Linear_mul(linear(RInv(p2.c), NoTerms), p1)

\* p1.ls[v2] = nil
Without(p, v2) == [p EXCEPT !.ls = [v \in DOMAIN p.ls \ {v2} |-> p.ls[v]]]

\* Mutant of Linear_subst: the dependency is not propagated.
Linear_subst_unchanged(p1, p2, v2) == [p |-> p1, ans |-> {}]

\* Mutant of Linear_subst: an answer found is not reported to solved.
Linear_subst_silent(p1, p2, v2) ==
    IF v2 \notin DOMAIN p1.ls
    THEN [p |-> p1, ans |-> {}]
    ELSE [p |-> Linear_zap(Linear_add(Without(p1, v2),
                                      Linear_mul(linear(p1.ls[v2], NoTerms), p2))),
          ans |-> {}]

\* Mutant of Linear_subst: the term in v2 is not deleted before the sum.
Linear_subst_keeps_term(p1, p2, v2) ==
    IF v2 \notin DOMAIN p1.ls
    THEN [p |-> p1, ans |-> {}]
    ELSE LET q == Linear_zap(Linear_add(p1, Linear_mul(linear(p1.ls[v2], NoTerms), p2)))
         IN  [p |-> q, ans |-> IF IsNumber(q) THEN {q.c} ELSE {}]

\* Mutant of Linear_subst: the sum is not simplified.
Linear_subst_no_zap(p1, p2, v2) ==
    IF v2 \notin DOMAIN p1.ls
    THEN [p |-> p1, ans |-> {}]
    ELSE LET q == Linear_add(Without(p1, v2),
                             Linear_mul(linear(p1.ls[v2], NoTerms), p2))
         IN  [p |-> q, ans |-> IF IsNumber(q) THEN {q.c} ELSE {}]

\* Linear.subst(p1, v1, p2, v2): the polynomial returned (p1 itself when it
\* does not mention v2), and in ans the number handed to solved(v1, .),
\* if any.
Linear_subst(p1, p2, v2) ==
    IF v2 \notin DOMAIN p1.ls
    THEN [p |-> p1, ans |-> {}]
    ELSE LET c1 == p1.ls[v2]
             q == Linear_zap(Linear_add(Without(p1, v2),
                                        Linear_mul(linear(c1, NoTerms), p2)))
         IN  [p |-> q, ans |-> IF IsNumber(q) THEN {q.c} ELSE {}]

\* ------------------------------------------------------------ environment

\* An entry of env is a polynomial [c, ls] or a math function [name].
IsLinear(e) == "ls" \in DOMAIN e

EnvPoly(p) == [c |-> p.c, ls |-> p.ls]

\* math.pi, to six decimals
Pi == <<355, 113>>

FunNames == {"abs", "exp", "log", "cos", "sin", "rad", "deg"}

InitEnv ==
    [k \in {Key("i", "x"), Key("i", "y"), Key("pi", "x"), Key("pi", "y")}
           \cup {Key(f, "") : f \in FunNames} |->
        IF k = Key("i", "x") THEN [c |-> R(0), ls |-> NoTerms]
        ELSE IF k = Key("i", "y") THEN [c |-> R(1), ls |-> NoTerms]
        ELSE IF k = Key("pi", "x") THEN [c |-> Pi, ls |-> NoTerms]
        ELSE IF k = Key("pi", "y") THEN [c |-> R(0), ls |-> NoTerms]
        ELSE [name |-> k[1]]]

\* Mutant of Map.subst: the function is replaced by a polynomial.
Map_subst_zero(map) == [c |-> R(0), ls |-> NoTerms]

\* Map.subst returns the function unchanged.
Map_subst(map) == map

\* ----------------------------------------------------------------- solve

\* The terms solve may elect: it keeps the first term, in the order pairs()
\* enumerates p.ls, whose coefficient has the greatest absolute value.  The
\* order of pairs() is unspecified, so any term of greatest absolute value
\* may be the one.  A coefficient that is nan is never elected (a > a_max
\* is false).
Pivots(p) ==
    LET q == Linear_zap(p)
    IN  {v \in DOMAIN q.ls :
            /\ RLess(R(0), RAbs(q.ls[v]))
            /\ \A w \in DOMAIN q.ls : ~RLess(RAbs(q.ls[v]), RAbs(q.ls[w]))}

\* The error solve raises for p = left - right, "" if none.  When no term
\* is elected v_max is nil and p.ls[v_max] = nil is a Lua error.
solve_err(p) ==
    LET q == Linear_zap(p)
    IN  IF IsNumber(q)
        THEN IF is_zero(q.c) THEN "redundant equation"
             ELSE "inconsistent equation"
        ELSE IF Pivots(p) = {} THEN "table index is nil"
        ELSE ""

\* Mutant of Definition: the term of the pivot is not deleted.
Definition_keeps_pivot(p, v_max) ==
    LET q == Linear_zap(p)
    IN  Linear_zap(Linear_mul(linear(RDiv(R(-1), q.ls[v_max]), NoTerms), q))

\* The definition of the pivot: p.ls[v_max] = nil; p = linear(-1 / c_max) * p;
\* p:zap()
Definition(p, v_max) ==
    LET q == Linear_zap(p)
        c_max == q.ls[v_max]
    IN  Linear_zap(Linear_mul(linear(RDiv(R(-1), c_max), NoTerms),
                              Without(q, v_max)))

\* A table on the stack after the propagation loop of solve: the table of
\* env[alias] lost its v_max term in Linear.subst, and env[alias] is a new
\* table from then on.
Propagated(obj, v_max) ==
    IF obj.alias # NoKey /\ v_max \in DOMAIN obj.ls
    THEN [Without(obj, v_max) EXCEPT !.alias = NoKey]
    ELSE obj

\* solve(p) with v_max the term elected, for p that is no number: the
\* environment and the translation table afterwards.
solve_env(env, p, v_max) ==
    LET d == Definition(p, v_max)
    IN  [k \in DOMAIN env \cup {v_max} |->
            IF k = v_max THEN EnvPoly(d)
            ELSE IF IsLinear(env[k])
                 THEN EnvPoly(Linear_subst(env[k], d, v_max).p)
                 ELSE Map_subst(env[k])]

solve_translation(env, translation, p, v_max) ==
    LET d == Definition(p, v_max)
        hit == {k \in DOMAIN env :
                   IsLinear(env[k]) /\ Linear_subst(env[k], d, v_max).ans # {}}
        t1 == IF IsNumber(d) THEN solved(translation, v_max, d.c)
              ELSE translation
    IN  [k \in DOMAIN t1 \cup hit |->
            IF k \in hit
            THEN LET c1 == CHOOSE c \in Linear_subst(env[k], d, v_max).ans : TRUE
                 IN  solved(t1, k, c1)[k]
            ELSE t1[k]]

\* ------------------------------------------------- complex polynomials

complex(x, y) == [x |-> x, y |-> y]

Complex_add(z1, z2) == complex(Linear_add(z1.x, z2.x), Linear_add(z1.y, z2.y))

Complex_sub(z1, z2) == complex(Linear_sub(z1.x, z2.x), Linear_sub(z1.y, z2.y))

Complex_unm(z) == complex(Linear_unm(z.x), Linear_unm(z.y))

Complex_mul_ok(z1, z2) ==
    /\ Linear_mul_ok(z1.x, z2.x)
    /\ Linear_mul_ok(z1.y, z2.y)
    /\ Linear_mul_ok(z1.x, z2.y)
    /\ Linear_mul_ok(z2.x, z1.y)

Complex_mul(z1, z2) ==
    complex(Linear_sub(Linear_mul(z1.x, z2.x), Linear_mul(z1.y, z2.y)),
            Linear_add(Linear_mul(z1.x, z2.y), Linear_mul(z2.x, z1.y)))

\* Complex.__div raises "divisor is not a number" unless both parts of z2
\* are numbers.  A divisor that is zero raises nothing.
Complex_div_ok(z1, z2) == IsNumber(z2.x) /\ IsNumber(z2.y)

\* Mutant of Complex_div: the imaginary part with the sign of the
\* complex-number version, y1 * x2 + x1 * y2.
Complex_div_plus(z1, z2) ==
    LET x == z2.x.c
        y == z2.y.c
        sq == linear(RInv(RAdd(RMul(x, x), RMul(y, y))), NoTerms)
    IN  complex(Linear_mul(Linear_add(Linear_mul(z1.x, z2.x), Linear_mul(z1.y, z2.y)), sq),
                Linear_mul(Linear_add(Linear_mul(z2.x, z1.y), Linear_mul(z1.x, z2.y)), sq))

Complex_div(z1, z2) ==
    LET x == z2.x.c
        y == z2.y.c
        sq == linear(RInv(RAdd(RMul(x, x), RMul(y, y))), NoTerms)
    IN  complex(Linear_mul(Linear_add(Linear_mul(z1.x, z2.x), Linear_mul(z1.y, z2.y)), sq),
                Linear_mul(Linear_sub(Linear_mul(z2.x, z1.y), Linear_mul(z1.x, z2.y)), sq))

\* The error Complex.__pow raises, "" if none.
Complex_pow_err(z1, z2) ==
    IF ~(IsNumber(z2.x) /\ IsNumber(z2.y)) THEN "exponent not a number"
    ELSE IF ~is_zero(z2.y.c) THEN "exponent must be real"
    ELSE IF ~(IsNumber(z1.x) /\ IsNumber(z1.y)) THEN "exponentiation base not a number"
    ELSE ""

\* The power z^k of the complex number z = <<x, y>> for a natural number k,
\* by repeated multiplication.
RECURSIVE CPow(_, _)
CPow(z, k) ==
    IF k = 0 THEN <<R(1), R(0)>>
    ELSE LET q == CPow(z, k - 1)
         IN  <<RSub(RMul(q[1], z[1]), RMul(q[2], z[2])),
               RAdd(RMul(q[1], z[2]), RMul(q[2], z[1]))>>

\* x1, y1 = log(x1, y1); x1, y1 = exp(x1 * x2, x2 * y1) for an exponent x2
\* that is a natural number: the parts of z1 ^ x2.  log(0, 0) is -inf, so
\* 0 ^ 0 is exp(-inf * 0) = nan in both parts.  Other exponents are not
\* modelled (the results are no fractions).
exp_log(x1, y1, x2) ==
    IF x2[1] = 0 /\ x1[1] = 0 /\ y1[1] = 0
    THEN <<Norm(0, 0), Norm(0, 0)>>
    ELSE CPow(<<x1, y1>>, x2[1])

\* return complex(linear(x1), linear(x2))
Complex_pow(z1, z2) ==
    LET e == exp_log(z1.x.c, z1.y.c, z2.x.c)
    IN  complex(linear(e[1], NoTerms), linear(z2.x.c, NoTerms))

\* ------------------------------------------------- mathematical functions

\* rad(x, y)
rad(x, y) ==
    IF ~is_zero(y) THEN [err |-> "rad argument must be real", x |-> R(0), y |-> R(0)]
    ELSE [err |-> "", x |-> RMul(x, RDiv(Pi, R(180))), y |-> R(0)]

\* deg(x, y): math.deg(z.r) reads the global z, which is nil.
deg(x, y) ==
    IF ~is_zero(y) THEN [err |-> "deg argument must be real", x |-> R(0), y |-> R(0)]
    ELSE [err |-> "attempt to index global 'z' (a nil value)", x |-> R(0), y |-> R(0)]

\* The functions of the initial environment that have fractions as values.
\* abs, exp, log, cos and sin are not modelled.
MathFun(name, x, y) ==
    CASE name = "rad" -> rad(x, y)
      [] name = "deg" -> deg(x, y)

\* ------------------------------------------- constructors for the parser

\* Mutant of variable_part: a dependent variable is not replaced by its
\* definition.
variable_part_bare(env, var) == linear(R(0), [v \in {var} |-> R(1)])

variable_part(env, var) ==
    IF var \in DOMAIN env
    THEN IF IsLinear(env[var])
         THEN [c |-> env[var].c, ls |-> env[var].ls, alias |-> var]
         ELSE env[var]
    ELSE linear(R(0), [v \in {var} |-> R(1)])

variable(env, var) ==
    complex(variable_part(env, Key(var, "x")), variable_part(env, Key(var, "y")))

\* whatever.."z"
AnonNames == <<"0z", "1z", "2z", "3z">>

number(x) == complex(linear(x, NoTerms), linear(R(0), NoTerms))

mediation_ok(scale, left, right) ==
    Complex_mul_ok(complex(scale.x, linear(R(0), NoTerms)), Complex_sub(right, left))

\* Mutant of mediation: the whole scale multiplies, not its real part.
mediation_complex_scale(scale, left, right) ==
    Complex_add(left, Complex_mul(scale, Complex_sub(right, left)))

mediation(scale, left, right) ==
    Complex_add(left, Complex_mul(complex(scale.x, linear(R(0), NoTerms)),
                                  Complex_sub(right, left)))

\* fun.func: a complex polynomial has no field func (its metatable indexes
\* Complex, which defines none); an entry made by map() has.
HasFunc(fun) == "name" \in DOMAIN fun

\* The error application(fun, arg) raises, "" if none.  fun:tostring()
\* calls a field tostring that neither Complex nor Map defines: on a
\* complex polynomial Lua raises the error of calling nil, on a math
\* function Map_missing.__index raises "function used as a variable".
application_err(fun, arg) ==
    IF ~HasFunc(fun) THEN "attempt to call method 'tostring' (a nil value)"
    ELSE IF ~(IsNumber(arg.x) /\ IsNumber(arg.y)) THEN "function used as a variable"
    ELSE MathFun(fun.name, arg.x.c, arg.y.c).err

\* local fx, fy = f(x, y); return complex(linear(fx), linear(fy))
application(fun, arg) ==
    LET r == MathFun(fun.name, arg.x.c, arg.y.c)
    IN  complex(linear(r.x, NoTerms), linear(r.y, NoTerms))

\* reduce(p): ans = ans + variable_part(v) * linear(c) for every term of p
RECURSIVE reduce_terms(_, _, _, _)
reduce_terms(env, p, vs, ans) ==
    IF vs = {} THEN ans
    ELSE LET v == CHOOSE w \in vs : TRUE
         IN  reduce_terms(env, p, vs \ {v},
                 Linear_add(ans, Linear_mul(variable_part(env, v),
                                            linear(p.ls[v], NoTerms))))

reduce(env, p) == reduce_terms(env, p, DOMAIN p.ls, linear(p.c, NoTerms))

\* ------------------------------------------------------------------ input

\* What the scanner and the parser hand to the solver for one expression:
\* the constructor calls in the order the scanner (mk_var, mk_avar, mk_num)
\* and the grammar's reductions make them.
TVar(n) == [t |-> "var", name |-> n, val |-> R(0)]
TNum(x) == [t |-> "num", name |-> "", val |-> x]
TOp(o) == [t |-> o, name |-> "", val |-> R(0)]

Exprs ==
    { <<TVar("v")>>,                                               \* v
      <<TVar("w")>>,                                               \* w
      <<TNum(<<1, 2>>)>>,                                          \* .5
      <<TNum(<<1, 2>>), TNum(R(2)), TVar("i"), TOp("mul"), TOp("add")>>, \* .5+2*i
      <<TNum(R(2)), TVar("i"), TOp("sub"), TVar("w"), TOp("mul")>>, \* (2-i)*w
      <<TOp("anon"), TNum(R(1)), TOp("neg"), TNum(R(1)), TOp("med")>> } \* ?[-1,1]

RECURSIVE Anons(_)
Anons(e) ==
    IF e = <<>> THEN 0
    ELSE (IF Head(e).t = "anon" THEN 1 ELSE 0) + Anons(Tail(e))

\* ---------------------------------------------------------------- state

VARIABLES
    env,          \* env: key -> polynomial or math function
    translation,  \* translation: key -> string
    stack,        \* the Lua stack of the C interface: complex polynomials
    whatever,     \* the counter of anonymous variables
    verbose,      \* the -d flag
    err,          \* "" or the message of the error that ended the run
    input,        \* the calls still to come for the expression being read
    pc,           \* "left": no equation of the statement made yet,
                  \* "eqy": inside equation, real part solved,
                  \* "eqns": an equation of the statement has been made
    neqs,         \* '=' signs read so far
    pivot,        \* the variable the last solve elected, NoKey at start
    nsolved,      \* number of solves that returned
    cur,          \* the expression being read, ? replaced by its variable
    prev,         \* the expression before it in the statement
    hist,         \* the equations made so far: [l, r] of expressions
    lex,          \* the scanner and the parser: what is left of the input
                  \* read, the start condition, the parser's state, the
                  \* output line being written, the exit status
    trace         \* the lines written to stderr since the last call of
                  \* equation_part began

vars == <<env, translation, stack, whatever, verbose, err, input, pc, neqs,
          pivot, nsolved, cur, prev, hist, lex, trace>>

\* The solver's state as one value.
Machine ==
    [env |-> env, translation |-> translation, stack |-> stack,
     whatever |-> whatever, verbose |-> verbose, err |-> err,
     pivot |-> pivot, nsolved |-> nsolved, trace |-> trace]

Install(m) ==
    /\ env' = m.env
    /\ translation' = m.translation
    /\ stack' = m.stack
    /\ whatever' = m.whatever
    /\ err' = m.err
    /\ pivot' = m.pivot
    /\ nsolved' = m.nsolved
    /\ trace' = m.trace
    /\ verbose' = verbose

\* err(msg) of the C interface: report, close the Lua state, exit(1).
Fail(m, msg) == [m EXCEPT !.err = msg]

Push(m, z) == [m EXCEPT !.stack = Append(@, z)]

\* pcall(n, 1): the n arguments are replaced by the result.
Replace(m, n, z) ==
    [m EXCEPT !.stack = Append(SubSeq(@, 1, Len(@) - n), z)]

Arg(m, k) == m.stack[Len(m.stack) - k]

do_var(m, name) == Push(m, variable(m.env, name))

\* Mutant of do_avar: the counter is not incremented.
do_avar_same(m) == Push(m, variable(m.env, AnonNames[m.whatever + 1]))

do_avar(m) ==
    [Push(m, variable(m.env, AnonNames[m.whatever + 1]))
        EXCEPT !.whatever = @ + 1]

do_num(m, x) == Push(m, number(x))

do_add(m) == Replace(m, 2, Complex_add(Arg(m, 1), Arg(m, 0)))

\* Mutant of do_sub: the operands are taken in the other order.
do_sub_swapped(m) == Replace(m, 2, Complex_sub(Arg(m, 0), Arg(m, 1)))

do_sub(m) == Replace(m, 2, Complex_sub(Arg(m, 1), Arg(m, 0)))

do_neg(m) == Replace(m, 1, Complex_unm(Arg(m, 0)))

do_mul(m) ==
    IF Complex_mul_ok(Arg(m, 1), Arg(m, 0))
    THEN Replace(m, 2, Complex_mul(Arg(m, 1), Arg(m, 0)))
    ELSE Fail(m, "muliplier and multiplicand both not a number")

do_div(m) ==
    IF Complex_div_ok(Arg(m, 1), Arg(m, 0))
    THEN Replace(m, 2, Complex_div(Arg(m, 1), Arg(m, 0)))
    ELSE Fail(m, "divisor is not a number")

do_pow(m) ==
    IF Complex_pow_err(Arg(m, 1), Arg(m, 0)) = ""
    THEN Replace(m, 2, Complex_pow(Arg(m, 1), Arg(m, 0)))
    ELSE Fail(m, Complex_pow_err(Arg(m, 1), Arg(m, 0)))

do_app(m) ==
    IF application_err(Arg(m, 1), Arg(m, 0)) = ""
    THEN Replace(m, 2, application(Arg(m, 1), Arg(m, 0)))
    ELSE Fail(m, application_err(Arg(m, 1), Arg(m, 0)))

do_med(m) ==
    IF mediation_ok(Arg(m, 2), Arg(m, 1), Arg(m, 0))
    THEN Replace(m, 3, mediation(Arg(m, 2), Arg(m, 1), Arg(m, 0)))
    ELSE Fail(m, "muliplier and multiplicand both not a number")

\* -------------------------------------------------------------- equation

\* left:zap() and right:zap() of equation_part, which change the operand
\* tables themselves: what the real parts of the two operands on the stack
\* (and the env entries whose tables they are) hold after the call.
zap_operands(m) ==
    IF ~m.verbose THEN m
    ELSE LET n == Len(m.stack)
             ks == {m.stack[n - 1].x.alias, m.stack[n].x.alias} \ {NoKey}
         IN  [m EXCEPT
                !.stack = [j \in DOMAIN m.stack |->
                              IF j \in {n - 1, n}
                              THEN complex(Linear_zap(m.stack[j].x), m.stack[j].y)
                              ELSE m.stack[j]],
                !.env = [k \in DOMAIN m.env |->
                            IF k \in ks THEN Linear_zap(m.env[k]) ELSE m.env[k]]]

\* The lines display() writes.  A line holds the polynomials it names,
\* not their digits: "left = right", and "var is p".
EqLine(left, right) ==
    [kind |-> "=", var |-> NoKey, p |-> EnvPoly(left), q |-> EnvPoly(right)]

IsLine(v, p) ==
    [kind |-> "is", var |-> v, p |-> EnvPoly(p), q |-> EnvPoly(linear(R(0), NoTerms))]

\* The orders in which a loop over pairs() may meet the elements of S.
Orders(S) ==
    {f \in [1..Cardinality(S) -> S] : \A a, b \in DOMAIN f : f[a] = f[b] => a = b}

\* Mutant of solve_trace: the line of the pivot is written after the loop
\* that propagates its definition.
solve_trace_pivot_last(menv, p, v_max) ==
    LET d == Definition(p, v_max)
        ks == {k \in DOMAIN menv : IsLinear(menv[k]) /\ v_max \in DOMAIN menv[k].ls}
    IN  {[j \in 1..Len(o) |-> IsLine(o[j], Linear_subst(menv[o[j]], d, v_max).p)]
            \o <<IsLine(v_max, d)>> : o \in Orders(ks)}

\* What solve(p) writes when verbose is set and v_max is elected: the line
\* of v_max and its definition, then, in the order of pairs(env), the line
\* Linear.subst writes for every entry that refers to v_max.
solve_trace(menv, p, v_max) ==
    LET d == Definition(p, v_max)
        ks == {k \in DOMAIN menv : IsLinear(menv[k]) /\ v_max \in DOMAIN menv[k].ls}
    IN  {<<IsLine(v_max, d)>>
            \o [j \in 1..Len(o) |-> IsLine(o[j], Linear_subst(menv[o[j]], d, v_max).p)]
         : o \in Orders(ks)}

\* equation_part(left, right): every state solve(left - right) can end in,
\* one for each term it may elect and each order of pairs(env), or the
\* state of the error it raises.
equation_part(m, left, right) ==
    LET l == IF m.verbose THEN Linear_zap(left) ELSE left
        r == IF m.verbose THEN Linear_zap(right) ELSE right
        p == Linear_sub(l, r)
        shown == IF m.verbose THEN <<EqLine(l, r)>> ELSE <<>>
    IN  IF solve_err(p) # ""
        THEN {[Fail(m, solve_err(p)) EXCEPT !.trace = shown]}
        ELSE UNION {
               {[m EXCEPT
                   !.env = solve_env(m.env, p, v_max),
                   !.translation = solve_translation(m.env, m.translation, p, v_max),
                   !.stack = [j \in DOMAIN m.stack |->
                                 complex(Propagated(m.stack[j].x, v_max),
                                         Propagated(m.stack[j].y, v_max))],
                   !.pivot = v_max,
                   !.nsolved = @ + 1,
                   !.trace = shown \o t]
                : t \in IF m.verbose THEN solve_trace(m.env, p, v_max) ELSE {<<>>}}
               : v_max \in Pivots(p)}

\* equation(left, right) up to the return of equation_part(left.x, right.x)
equation_x(m) ==
    LET z == zap_operands(m)
    IN  equation_part(z, Arg(z, 1).x, Arg(z, 0).x)

\* equation(left, right) from there on: the imaginary parts, and the value
\* returned, which binop leaves on the stack in place of the operands.
equation_y(m) ==
    LET after == equation_part(m, reduce(m.env, Arg(m, 1).y),
                                  reduce(m.env, Arg(m, 0).y))
    IN  {IF a.err # "" THEN a
         ELSE Replace(a, 2, complex(reduce(a.env, Arg(a, 0).x),
                                    reduce(a.env, Arg(a, 0).y))) : a \in after}

\* equation(left, right) as a whole
equation(m) ==
    UNION {IF a.err # "" THEN {a} ELSE equation_y(a) : a \in equation_x(m)}

\* One call of the C interface; nothing runs after an error (exit(1)).
Call(m, tok) ==
    IF m.err # "" THEN {m}
    ELSE CASE tok.t = "var" -> {do_var(m, tok.name)}
           [] tok.t = "anon" -> {do_avar(m)}
           [] tok.t = "num" -> {do_num(m, tok.val)}
           [] tok.t = "add" -> {do_add(m)}
           [] tok.t = "sub" -> {do_sub(m)}
           [] tok.t = "mul" -> {do_mul(m)}
           [] tok.t = "neg" -> {do_neg(m)}
           [] tok.t = "med" -> {do_med(m)}
           [] tok.t = "div" -> {do_div(m)}
           [] tok.t = "pow" -> {do_pow(m)}
           [] tok.t = "app" -> {do_app(m)}
           [] tok.t = "eq" -> equation(m)
           [] tok.t = "cmd" -> {[m EXCEPT !.stack = <<>>]}

\* The states a sequence of calls can end in.
RECURSIVE Calls(_, _)
Calls(ms, toks) ==
    IF toks = <<>> THEN ms
    ELSE Calls(UNION {Call(m, Head(toks)) : m \in ms}, Tail(toks))

\* ---------------------------------------------------------------- actions

\* The scanner before the first character: start condition INITIAL, at
\* the beginning of a line, lineno = 1; the parser in its first state.
Lex0 ==
    [rest |-> <<>>, start |-> "INITIAL", at_bol |-> TRUE, lineno |-> 1,
     state |-> "P0", exit |-> -1, nread |-> 0,
     line |-> <<>>, nin |-> 0, out |-> <<>>, nl |-> 0, calls |-> <<>>,
     reports |-> 0, held |-> FALSE]

Init ==
    /\ env = InitEnv
    /\ translation = [k \in {} |-> 0]
    /\ stack = <<>>
    /\ whatever = 0
    /\ verbose \in BOOLEAN
    /\ err = ""
    /\ input = <<>>
    /\ pc = "left"
    /\ neqs = 0
    /\ pivot = NoKey
    /\ nsolved = 0
    /\ cur = <<>>
    /\ prev = <<>>
    /\ hist = {}
    /\ lex = Lex0
    /\ trace = <<>>

Running == err = ""

Ghost == UNCHANGED <<neqs, prev, hist, lex>>

\* The scanner reaches the next expression of a statement: the first one,
\* or one that follows an '=' sign.
Scan ==
    /\ Running /\ input = <<>> /\ pc \in {"left", "eqns"}
    /\ neqs < MaxEqs
    /\ \E e \in Exprs :
          /\ whatever + Anons(e) <= MaxAnon
          /\ \/ /\ pc = "left" /\ Len(stack) = 0
                /\ input' = e
                /\ neqs' = neqs
                /\ prev' = prev
             \/ /\ Len(stack) = 1
                /\ input' = e \o <<TOp("eq")>>
                /\ neqs' = neqs + 1
                /\ prev' = IF pc = "left" THEN cur ELSE prev
    /\ cur' = <<>>
    /\ UNCHANGED <<env, translation, stack, whatever, verbose, err, pc,
                   pivot, nsolved, hist, lex, trace>>

Next1(t) == Running /\ pc \in {"left", "eqns"} /\ input # <<>> /\ Head(input).t = t

Consume(tok) ==
    /\ input' = Tail(input)
    /\ cur' = Append(cur, tok)
    /\ pc' = pc
    /\ Ghost

mk_var ==
    /\ Next1("var")
    /\ Install(do_var(Machine, Head(input).name))
    /\ Consume(Head(input))

mk_avar ==
    /\ Next1("anon")
    /\ Install(do_avar(Machine))
    /\ Consume(TVar(AnonNames[whatever + 1]))

mk_num ==
    /\ Next1("num")
    /\ Install(do_num(Machine, Head(input).val))
    /\ Consume(Head(input))

mk_add == Next1("add") /\ Install(do_add(Machine)) /\ Consume(Head(input))

mk_sub == Next1("sub") /\ Install(do_sub(Machine)) /\ Consume(Head(input))

mk_mul == Next1("mul") /\ Install(do_mul(Machine)) /\ Consume(Head(input))

mk_neg == Next1("neg") /\ Install(do_neg(Machine)) /\ Consume(Head(input))

mk_med == Next1("med") /\ Install(do_med(Machine)) /\ Consume(Head(input))

mk_div == Next1("div") /\ Install(do_div(Machine)) /\ Consume(Head(input))

mk_pow == Next1("pow") /\ Install(do_pow(Machine)) /\ Consume(Head(input))

mk_app == Next1("app") /\ Install(do_app(Machine)) /\ Consume(Head(input))

\* mk_eq: binop("equation"), as far as the real part
mk_eq ==
    /\ Next1("eq")
    /\ \E m \in equation_x(Machine) : Install(m)
    /\ input' = Tail(input)
    /\ pc' = "eqy"
    /\ UNCHANGED <<neqs, cur, prev, hist, lex>>

\* mk_eq: the rest of the call
mk_eq_y ==
    /\ Running /\ pc = "eqy"
    /\ \E m \in equation_y(Machine) :
          /\ Install(m)
          /\ hist' = IF m.err = "" THEN hist \cup {[l |-> prev, r |-> cur]}
                     ELSE hist
    /\ pc' = "eqns"
    /\ prev' = cur
    /\ cur' = <<>>
    /\ UNCHANGED <<input, neqs, lex>>

\* mk_cmd: lua_settop(L, 0)
mk_cmd ==
    /\ Running /\ pc = "eqns" /\ input = <<>>
    /\ stack' = <<>>
    /\ pc' = "left"
    /\ prev' = <<>>
    /\ cur' = <<>>
    /\ UNCHANGED <<env, translation, whatever, verbose, err, input, neqs,
                   pivot, nsolved, hist, lex, trace>>

Next ==
    \/ Scan
    \/ mk_var
    \/ mk_avar
    \/ mk_num
    \/ mk_add
    \/ mk_sub
    \/ mk_mul
    \/ mk_neg
    \/ mk_med
    \/ mk_eq
    \/ mk_eq_y
    \/ mk_cmd

Spec == Init /\ [][Next]_vars

\* ------------------------------------------------ single statements

\* The operands of the statements below: the numbers 0 .. MaxLit, the
\* variables v and w, i, 2+i, v-v and 0*v.
Atoms ==
    {<<TNum(R(k))>> : k \in 0..MaxLit}
    \cup { <<TVar("v")>>, <<TVar("w")>>, <<TVar("i")>>,
           <<TNum(R(2)), TVar("i"), TOp("add")>>,
           <<TVar("v"), TVar("v"), TOp("sub")>>,
           <<TNum(R(0)), TVar("v"), TOp("mul")>> }

\* The names written in function position.
Applied == {"abs", "rad", "deg", "v"}

\* The expressions a op b and f a.
Operations ==
    {a \o b \o <<TOp(o)>> : a \in Atoms, b \in Atoms, o \in {"mul", "div", "pow"}}
    \cup {<<TVar(f)>> \o a \o <<TOp("app")>> : f \in Applied, a \in Atoms}

\* The mediations s[a, b].
Mediations ==
    {sc \o a \o b \o <<TOp("med")>> :
        sc \in Atoms,
        a \in {<<TVar("v")>>, <<TNum(R(1))>>},
        b \in {<<TVar("w")>>, <<TVar("v")>>, <<TNum(R(2)), TVar("i"), TOp("add")>>}}

\* The input holds one statement, u = e.
InitExp ==
    /\ env = InitEnv
    /\ translation = [k \in {} |-> 0]
    /\ stack = <<>>
    /\ whatever = 0
    /\ verbose \in BOOLEAN
    /\ err = ""
    /\ input \in {<<TVar("u")>> \o e \o <<TOp("eq")>> : e \in Operations \cup Mediations}
    /\ pc = "left"
    /\ neqs = 1
    /\ pivot = NoKey
    /\ nsolved = 0
    /\ cur = <<>>
    /\ prev = <<>>
    /\ hist = {}
    /\ lex = Lex0
    /\ trace = <<>>

NextExp ==
    \/ mk_var
    \/ mk_num
    \/ mk_add
    \/ mk_sub
    \/ mk_mul
    \/ mk_div
    \/ mk_pow
    \/ mk_app
    \/ mk_med
    \/ mk_eq
    \/ mk_eq_y
    \/ mk_cmd

SpecExp == InitExp /\ [][NextExp]_vars

\* ---------------------------------------------------- scanner and parser

\* Characters are strings of length one; a text is a sequence of them.
Letters ==
    {"a", "b", "c", "d", "e", "f", "g", "h", "i", "j", "k", "l", "m",
     "n", "o", "p", "q", "r", "s", "t", "u", "v", "w", "x", "y", "z",
     "A", "B", "C", "D", "E", "F", "G", "H", "I", "J", "K", "L", "M",
     "N", "O", "P", "Q", "R", "S", "T", "U", "V", "W", "X", "Y", "Z"}

Digits == <<"0", "1", "2", "3", "4", "5", "6", "7", "8", "9">>

IsDigit(c) == \E k \in DOMAIN Digits : Digits[k] = c

\* punct
Punct == {"+", "-", "*", "/", "^", "[", ",", "]", "(", ")", "=", ";"}

\* [ \t\f\r]
Blank == {" ", "\t", "\f", "\r"}

IsIdChar(c) == c \in Letters \/ IsDigit(c) \/ c = "_"

IsBlank(c) == c \in Blank

\* The length of the longest prefix of cs made of characters of an
\* identifier, of digits, of blanks.
RECURSIVE IdRun(_)
IdRun(cs) == IF cs # <<>> /\ IsIdChar(Head(cs)) THEN 1 + IdRun(Tail(cs)) ELSE 0

RECURSIVE DigitRun(_)
DigitRun(cs) == IF cs # <<>> /\ IsDigit(Head(cs)) THEN 1 + DigitRun(Tail(cs)) ELSE 0

RECURSIVE BlankRun(_)
BlankRun(cs) == IF cs # <<>> /\ IsBlank(Head(cs)) THEN 1 + BlankRun(Tail(cs)) ELSE 0

After(cs, n) == SubSeq(cs, n + 1, Len(cs))

\* id: {letter}({letter}|{digit}|_)*, the length of the longest match at
\* the head of cs, 0 if none.
IdLen(cs) ==
    IF cs # <<>> /\ Head(cs) \in Letters THEN 1 + IdRun(Tail(cs)) ELSE 0

\* var: {id}#(x|y)
VarLen(cs) ==
    LET n == IdLen(cs)
    IN  IF n > 0 /\ Len(cs) >= n + 2 /\ cs[n + 1] = "#" /\ cs[n + 2] \in {"x", "y"}
        THEN n + 2 ELSE 0

\* num: {digit}+("."{digit}*)?|"."{digit}+
NumLen(cs) ==
    LET a == DigitRun(cs)
    IN  IF a > 0
        THEN IF Len(cs) > a /\ cs[a + 1] = "."
             THEN a + 1 + DigitRun(After(cs, a + 1))
             ELSE a
        ELSE IF cs # <<>> /\ Head(cs) = "." /\ DigitRun(Tail(cs)) > 0
             THEN 1 + DigitRun(Tail(cs))
             ELSE 0

\* yytext as a Lua string
RECURSIVE Join(_)
Join(cs) == IF cs = <<>> THEN "" ELSE Head(cs) \o Join(Tail(cs))

DigitVal(c) == (CHOOSE k \in DOMAIN Digits : Digits[k] = c) - 1

RECURSIVE Pow10(_)
Pow10(k) == IF k = 0 THEN 1 ELSE 10 * Pow10(k - 1)

\* The number the digits of cs write, the point left out.
RECURSIVE Whole(_, _)
Whole(cs, acc) ==
    IF cs = <<>> THEN acc
    ELSE IF Head(cs) = "." THEN Whole(Tail(cs), acc)
    ELSE Whole(Tail(cs), 10 * acc + DigitVal(Head(cs)))

\* atof(yytext) for a match of num
atof(cs) ==
    LET a == DigitRun(cs)
        frac == IF Len(cs) > a THEN Len(cs) - a - 1 ELSE 0
    IN  Norm(Whole(cs, 0), Pow10(frac))

\* ^#lineqpp
Lineqpp == <<"#", "l", "i", "n", "e", "q", "p", "p">>

\* Mutant of AtLineqpp: the rule matches anywhere in a line.
AtLineqpp_anywhere(cs, at_bol) ==
    Len(cs) >= Len(Lineqpp) /\ SubSeq(cs, 1, Len(Lineqpp)) = Lineqpp

AtLineqpp(cs, at_bol) ==
    at_bol /\ Len(cs) >= Len(Lineqpp) /\ SubSeq(cs, 1, Len(Lineqpp)) = Lineqpp

\* The key of translation that the text of a var names: "v#x" itself.
VarKey(cs) == Key(Join(SubSeq(cs, 1, Len(cs) - 2)), cs[Len(cs)])

\* What is written to the output: a character, or a string of the
\* translation table.
NoValue == [neg |-> FALSE, digits |-> -3]
Chr(c) == [chr |-> c, val |-> NoValue]
Val(x) == [chr |-> "", val |-> x]
Chrs(cs) == [j \in DOMAIN cs |-> Chr(cs[j])]

\* translate(s) of the solver: translation[s], nil if there is none.
translate(tr, k) == IF k \in DOMAIN tr THEN tr[k] ELSE NoValue

\* Mutant of translate_text: a miss writes nothing.
translate_text_hit_only(tr, cs) ==
    IF translate(tr, VarKey(cs)) # NoValue THEN <<Val(translate(tr, VarKey(cs)))>>
    ELSE <<>>

\* translate(var) of the C interface: what printf("%s", var) writes.
translate_text(tr, cs) ==
    IF translate(tr, VarKey(cs)) # NoValue THEN <<Val(translate(tr, VarKey(cs)))>>
    ELSE Chrs(cs)

\* Mutant of translate_stack: the result of the call is not popped.
translate_stack_no_pop(st) == Append(st, number(R(0)))

\* translate(var) of the C interface: the Lua stack afterwards; the
\* function and its argument are replaced by the result, which is popped.
translate_stack(st) == st

\* Mutant of putchar_newline: an equation line writes nothing.
putchar_newline_text_only(start, n) == IF start = "leq" THEN n ELSE n + 1

\* putchar('\n') in the rules for newlines: the newlines written so far.
putchar_newline(start, n) == n + 1

\* Mutant of Exit: the status is 0 whatever happened.
Exit_zero(msg) == 0

\* The exit status: exit(1) in err, the value of yyparse() otherwise.
Exit(msg) == IF msg = "" THEN 0 ELSE 1

\* The parser.  It is modelled for statements whose expressions are single
\* operands, ID or NUM, and for the tokens ID, NUM, '=', ';', UNUSED and
\* the end of the input.  Its states, by what has been shifted of the
\* statement: "P0" nothing; "E1id", "E1num" the first expression; "P2" an
\* '=' sign; "E2id", "E2num" an expression after an '=' sign, mk_eq still
\* to be called; "A1", "A2" an ID and the operand it is applied to,
\* mk_app still to be called.  In each of them the parser needs the next
\* token before it reduces.
Step(m, st, cs) == [m |-> m, state |-> st, exit |-> -1, calls |-> cs]

\* err(msg), or the end of yyparse
Stop(m, cs) == [m |-> m, state |-> "done", exit |-> Exit(m.err), calls |-> cs]

\* yyerror("syntax error") called by yyparse, which returns 1
SyntaxError(m, cs) == Stop(Fail(m, "syntax error"), cs)

AppCall == TOp("app")
EqCall == TOp("eq")
CmdCall == TOp("cmd")

\* What the parser does with the token tok in state st: the reductions
\* that were waiting for it, those it makes by default before it finds
\* that the token is an error, and the shift.
RECURSIVE yyparse(_, _, _)
yyparse(m, st, tok) ==
    IF st = "P0"
    THEN CASE tok = "ID" -> {Step(m, "E1id", <<>>)}
           [] tok = "NUM" -> {Step(m, "E1num", <<>>)}
           [] tok = "$end" -> {Stop(m, <<>>)}
           [] OTHER -> {SyntaxError(m, <<>>)}
    ELSE IF st \in {"E1id", "E1num"}
    THEN CASE tok = "=" -> {Step(m, "P2", <<>>)}
           [] tok \in {"ID", "NUM"} /\ st = "E1id" -> {Step(m, "A1", <<>>)}
           [] OTHER -> {SyntaxError(m, <<>>)}
    ELSE IF st = "P2"
    THEN CASE tok = "ID" -> {Step(m, "E2id", <<>>)}
           [] tok = "NUM" -> {Step(m, "E2num", <<>>)}
           [] OTHER -> {SyntaxError(m, <<>>)}
    ELSE IF st \in {"E2id", "E2num"}
    THEN IF tok \in {"ID", "NUM"} /\ st = "E2id"
         THEN {Step(m, "A2", <<>>)}
         ELSE {IF a.err # "" THEN Stop(a, <<EqCall>>)
               ELSE CASE tok = "=" -> Step(a, "P2", <<EqCall>>)
                      [] tok = ";" ->
                           Step([a EXCEPT !.stack = <<>>], "P0", <<EqCall, CmdCall>>)
                      [] tok = "$end" ->
                           Stop([a EXCEPT !.stack = <<>>], <<EqCall, CmdCall>>)
                      [] OTHER ->
                           SyntaxError([a EXCEPT !.stack = <<>>], <<EqCall, CmdCall>>)
               : a \in equation(m)}
    ELSE \* "A1", "A2"
         LET a == do_app(m)
         IN  IF a.err # "" THEN {Stop(a, <<AppCall>>)}
             ELSE {[r EXCEPT !.calls = <<AppCall>> \o @] :
                      r \in yyparse(a, IF st = "A1" THEN "E1num" ELSE "E2num", tok)}

\* The lines of the inputs.
Pre == Lineqpp \o <<" ">>

Lines ==
    { <<"v", "#", "x", " ", "v", "#", "r", " ", "v", "#", "y", " ", "v", "#", "i", "\n">>,
      <<" ">> \o Lineqpp \o <<"\n">>,                 \*  #lineqpp
      Pre \o <<"v", "=", "1", "\n">>,                 \* #lineqpp v=1
      Pre \o <<";", "\n">>,                           \* #lineqpp ;
      Pre \o <<"v", "=", "\\", "\n">>,                \* #lineqpp v=\
      <<".", "5", ";", "\n">>,                        \* .5;
      Pre \o <<"v", "=", "\n">>,                      \* #lineqpp v=
      Pre \o <<"1", ";", "\n">>,                      \* #lineqpp 1;
      Pre \o <<"v", " ", "1", "\n">>,                 \* #lineqpp v 1
      Pre \o <<"?", "=", "1", ";", "\n">>,            \* #lineqpp ?=1;
      Pre \o <<"0", "z", "=", "1", ";", "\n">>,       \* #lineqpp 0z=1;
      <<"0", "z", "#", "x", "\n">> }                  \* 0z#x

\* Neither exit nor the end of yyparse has been reached.
Scanning == err = "" /\ lex.exit = -1

InRule(start) == Scanning /\ lex.rest # <<>> /\ lex.start = start

Solver == <<env, translation, stack, whatever, verbose, err, pivot, nsolved, trace>>

Unread == <<input, pc, neqs, cur, prev, hist>>

\* The scanner has matched the first n characters of what it has read.
\* line is the part of the current line of the input that has been
\* matched, nin the number of newlines matched.
Matched(n) ==
    [lex EXCEPT !.rest = After(@, n),
                !.at_bol = (lex.rest[n] = "\n"),
                !.line = IF lex.rest[n] = "\n" THEN <<>>
                         ELSE @ \o SubSeq(lex.rest, 1, n),
                !.nin = @ + Cardinality({j \in 1..n : lex.rest[j] = "\n"})]

\* lineno++; putchar('\n').  out is the line of the output being
\* written, nl the number of newlines written.
NewLine(l) == [l EXCEPT !.lineno = @ + 1,
                        !.nl = putchar_newline(lex.start, @),
                        !.out = <<>>]

\* A token is returned to the parser, after the calls made in the rule;
\* l is the scanner after the match.
Return(l, m, made, tok) ==
    \E r \in yyparse(m, lex.state, tok) :
        /\ Install(r.m)
        /\ lex' = [l EXCEPT !.state = r.state,
                            !.exit = r.exit,
                            !.calls = @ \o made \o r.calls,
                            !.reports = IF r.m.err # "" THEN @ + 1 ELSE @]
        /\ UNCHANGED <<verbose, Unread>>

\* The scanner reads the next line of the input.
yy_input ==
    /\ Scanning /\ lex.rest = <<>> /\ lex.nread < MaxLines
    /\ \E l \in Lines : lex' = [lex EXCEPT !.rest = l, !.nread = @ + 1]
    /\ UNCHANGED <<Solver, Unread>>

\* The input has ended: yylex returns 0.
yy_eof ==
    /\ Scanning /\ lex.rest = <<>>
    /\ Return(lex, Machine, <<>>, "$end")

\* \n          { lineno++; putchar('\n'); }
rule_newline ==
    /\ InRule("INITIAL") /\ Head(lex.rest) = "\n"
    /\ lex' = NewLine(Matched(1))
    /\ UNCHANGED <<Solver, Unread>>

\* {var}       { translate(yytext); }
rule_var ==
    /\ InRule("INITIAL") /\ VarLen(lex.rest) > 0
    /\ LET yytext == SubSeq(lex.rest, 1, VarLen(lex.rest))
       IN  lex' = [Matched(Len(yytext)) EXCEPT
                      !.out = @ \o translate_text(translation, yytext),
                      !.held = @ \/ stack # <<>>]
    /\ stack' = translate_stack(stack)
    /\ UNCHANGED <<env, translation, whatever, verbose, err, pivot, nsolved, trace,
                   Unread>>

\* ^#lineqpp   { BEGIN(leq); }
rule_lineqpp ==
    /\ InRule("INITIAL") /\ AtLineqpp(lex.rest, lex.at_bol)
    /\ lex' = [Matched(Len(Lineqpp)) EXCEPT !.start = "leq"]
    /\ UNCHANGED <<Solver, Unread>>

\* .           { putchar(yytext[0]); }
rule_any ==
    /\ InRule("INITIAL") /\ Head(lex.rest) # "\n"
    /\ VarLen(lex.rest) = 0 /\ ~AtLineqpp(lex.rest, lex.at_bol)
    /\ lex' = [Matched(1) EXCEPT !.out = Append(@, Chr(Head(lex.rest)))]
    /\ UNCHANGED <<Solver, Unread>>

IsContinuation(cs) == Len(cs) >= 2 /\ cs[1] = "\\" /\ cs[2] = "\n"

\* <leq>\\\n   { lineno++; putchar('\n'); }
leq_continuation ==
    /\ InRule("leq") /\ IsContinuation(lex.rest)
    /\ lex' = NewLine(Matched(2))
    /\ UNCHANGED <<Solver, Unread>>

\* <leq>\n     { lineno++; putchar('\n'); BEGIN(INITIAL); }
leq_newline ==
    /\ InRule("leq") /\ Head(lex.rest) = "\n"
    /\ lex' = [NewLine(Matched(1)) EXCEPT !.start = "INITIAL"]
    /\ UNCHANGED <<Solver, Unread>>

\* <leq>[ \t\f\r]+   { /* delete whitespace */ }
leq_blank ==
    /\ InRule("leq") /\ BlankRun(lex.rest) > 0
    /\ lex' = Matched(BlankRun(lex.rest))
    /\ UNCHANGED <<Solver, Unread>>

\* <leq>{id}   { mk_var(yytext); return ID; }
leq_id ==
    /\ InRule("leq") /\ IdLen(lex.rest) > 0
    /\ LET name == Join(SubSeq(lex.rest, 1, IdLen(lex.rest)))
       IN  Return(Matched(IdLen(lex.rest)), do_var(Machine, name), <<TVar(name)>>, "ID")

\* <leq>"?"    { mk_avar(); return ID; }
leq_avar ==
    /\ InRule("leq") /\ Head(lex.rest) = "?" /\ whatever < MaxAvars
    /\ Return(Matched(1), do_avar(Machine), <<TOp("anon")>>, "ID")

\* <leq>{num}  { mk_num(atof(yytext)); return NUM; }
leq_num ==
    /\ InRule("leq") /\ NumLen(lex.rest) > 0
    /\ LET x == atof(SubSeq(lex.rest, 1, NumLen(lex.rest)))
       IN  Return(Matched(NumLen(lex.rest)), do_num(Machine, x), <<TNum(x)>>, "NUM")

\* <leq>{punct}  { return yytext[0]; }   for the tokens '=' and ';'
leq_punct ==
    /\ InRule("leq") /\ Head(lex.rest) \in {"=", ";"}
    /\ Return(Matched(1), Machine, <<>>, Head(lex.rest))

\* <leq>.      { return UNUSED; }
leq_unused ==
    /\ InRule("leq")
    /\ Head(lex.rest) \notin Punct \cup Blank \cup {"\n", "?"}
    /\ ~IsContinuation(lex.rest)
    /\ IdLen(lex.rest) = 0 /\ NumLen(lex.rest) = 0
    /\ Return(Matched(1), Machine, <<>>, "UNUSED")

NextText ==
    \/ yy_input
    \/ yy_eof
    \/ rule_newline
    \/ rule_var
    \/ rule_lineqpp
    \/ rule_any
    \/ leq_continuation
    \/ leq_newline
    \/ leq_blank
    \/ leq_id
    \/ leq_avar
    \/ leq_num
    \/ leq_punct
    \/ leq_unused

SpecText == Init /\ [][NextText]_vars

\* ------------------------------------------------------------ Linear.zap

\* Number of calls of zap on the same polynomial.
MaxZaps == 2

\* The coefficients of the polynomials below: zero, numbers below the
\* tolerance, the tolerance itself, and numbers above it.
ZapCoefs ==
    {R(0), <<1, 2 * TolDen>>, <<-1, 2 * TolDen>>, <<1, TolDen>>, R(1), <<-1, 2>>}

ZapVars == {Key("v", "x"), Key("w", "x")}

\* The polynomials in v#x and w#x with these coefficients, a term of
\* coefficient 0 included, as the arithmetic builds them.
ZapPolys ==
    UNION {{linear(c, ls) : c \in ZapCoefs, ls \in [vs -> ZapCoefs]} :
              vs \in SUBSET ZapVars}

\* The stack holds one polynomial, not simplified yet.
InitZap ==
    /\ env = InitEnv
    /\ translation = [k \in {} |-> 0]
    /\ \E p \in ZapPolys :
          /\ stack = <<complex(p, linear(R(0), NoTerms))>>
          /\ cur = <<p>>
    /\ whatever = 0
    /\ verbose = FALSE
    /\ err = ""
    /\ input = <<>>
    /\ pc = "zap"
    /\ neqs = 0
    /\ pivot = NoKey
    /\ nsolved = 0
    /\ prev = <<>>
    /\ hist = {}
    /\ lex = Lex0
    /\ trace = <<>>

\* p:zap() on the polynomial of the stack; neqs counts the calls.
zap ==
    /\ pc = "zap" /\ neqs < MaxZaps
    /\ stack' = <<complex(Linear_zap(stack[1].x), stack[1].y)>>
    /\ neqs' = neqs + 1
    /\ UNCHANGED <<env, translation, whatever, verbose, err, input, pc,
                   pivot, nsolved, cur, prev, hist, lex, trace>>

NextZap == zap

SpecZap == InitZap /\ [][NextZap]_vars

\* ------------------------------------------------------------ properties

\* The dependent variables: the keys of env that hold a polynomial.
Dependent == {k \in DOMAIN env : IsLinear(env[k])}

\* The keys the initial environment defines.
Seeded == DOMAIN InitEnv

IsConstant(k) == k \in Dependent /\ IsNumber(env[k])

\* C1. Substitution closure: no variable that occurs in the definition of
\* a dependent variable is itself a dependent variable.
C1_Closure ==
    \A w \in Dependent : \A v \in DOMAIN env[w].ls : v \notin Dependent

\* C1 witness: after two statements some dependent variable is defined by
\* a polynomial that still has terms.
C1_Witness ==
    /\ err = "" /\ nsolved >= 4
    /\ \E w \in Dependent : DOMAIN env[w].ls # {}

\* C6. Pivot preservation: the variable the last solve elected is a key of
\* env, holds a polynomial, and occurs in no definition, its own included.
C6_PivotPreserved ==
    pivot # NoKey =>
        /\ pivot \in Dependent
        /\ \A w \in Dependent : pivot \notin DOMAIN env[w].ls

\* C6 witness: a solve has elected a variable while other dependent
\* variables with terms exist.
C6_Witness ==
    /\ pivot # NoKey /\ nsolved >= 3
    /\ \E w \in Dependent \ {pivot} : DOMAIN env[w].ls # {}

\* C7. A step in which a solve returns adds the elected variable, which
\* was no key of env before, and no other key; no step removes a key or
\* turns a polynomial entry into something else.
C7_OneNewDependent ==
    [][/\ nsolved' = nsolved + 1 =>
            /\ pivot' \notin DOMAIN env
            /\ DOMAIN env' = DOMAIN env \cup {pivot'}
       /\ nsolved' = nsolved => DOMAIN env' = DOMAIN env
       /\ \A k \in DOMAIN env : k \in DOMAIN env' /\ (IsLinear(env[k]) => IsLinear(env'[k]))
      ]_vars

\* C7 witness: three solves have returned.
C7_Witness == nsolved >= 3 /\ Cardinality(Dependent \ Seeded) = 3

\* C8. The translation table only grows: no step removes an entry or
\* changes the string of an entry.
C8_TranslationGrows ==
    [][\A k \in DOMAIN translation :
          k \in DOMAIN translation' /\ translation'[k] = translation[k]]_vars

\* C8 witness: a solve has run while the table already held entries.
C8_Witness ==
    /\ nsolved >= 3 /\ Cardinality(DOMAIN translation) >= 3

\* C9. For every variable part but the seeded ones, the translation table
\* has an entry exactly when env defines the part by a constant, and the
\* entry is the formatted, zero-snapped constant.
C9_TranslationIffConstant ==
    /\ DOMAIN translation \subseteq Dependent \ Seeded
    /\ \A v \in Dependent \ Seeded :
          /\ v \in DOMAIN translation <=> IsNumber(env[v])
          /\ v \in DOMAIN translation => translation[v] = s(num_zap(env[v].c))

\* C9 witness: the third solve made two dependent variables constant at
\* once (the first statement, v = w, made none).
C9_Witness ==
    /\ nsolved = 3
    /\ DOMAIN translation = {Key("v", "x"), Key("w", "x")}

\* The value of an expression in the current environment.
Value(e) ==
    LET m == CHOOSE a \in Calls({[Machine EXCEPT !.stack = <<>>, !.err = ""]}, e) : TRUE
    IN  m.stack[1]

\* p is zero once simplified.
IsZeroPoly(p) == IsNumber(Linear_zap(p)) /\ is_zero(Linear_zap(p).c)

Satisfied(e) ==
    LET d == Complex_sub(Value(e.l), Value(e.r))
    IN  IsZeroPoly(d.x) /\ IsZeroPoly(d.y)

\* C2. Soundness: every equation made so far is satisfied by env: with
\* the definitions of the dependent variables put in, its two sides are
\* the same polynomial, in the real and in the imaginary part.
C2_Sound == \A e \in hist : Satisfied(e)

\* The operands of the equation about to be made.
AtEq == Next1("eq")
Left == stack[Len(stack) - 1]
Right == stack[Len(stack)]

SamePoly(p, q) == p.c = q.c /\ p.ls = q.ls

Outcome(ms) == {[env |-> m.env, translation |-> m.translation, err |-> m.err] : m \in ms}

Eq == <<TOp("eq")>>
Cmd == <<TOp("cmd")>>

\* C3. A chain a = b = c does what a = b ; b = c does: equation returns
\* its right operand reduced against the environment the solve left, and
\* from every state between statements the chain and the two statements
\* end with the same environment and translation table.
C3_ChainAsTwo ==
    /\ AtEq =>
          \A m \in equation(Machine) :
              m.err = "" =>
                  /\ SamePoly(Arg(m, 0).x, reduce(m.env, Right.x))
                  /\ SamePoly(Arg(m, 0).y, reduce(m.env, Right.y))
    /\ (Running /\ pc = "left" /\ stack = <<>> /\ input = <<>>) =>
          \A a \in Exprs, b \in {e \in Exprs : Anons(e) = 0}, c \in Exprs :
              whatever + Anons(a) + Anons(c) <= Len(AnonNames) =>
                  Outcome(Calls({Machine}, a \o b \o Eq \o c \o Eq \o Cmd))
                  = Outcome(Calls({Machine},
                                  a \o b \o Eq \o Cmd \o b \o c \o Eq \o Cmd))

\* z is a variable that env defines by a number in both parts.
SolvedVar(z) ==
    /\ z.x.alias # NoKey /\ z.y.alias # NoKey
    /\ IsNumber(z.x) /\ IsNumber(z.y)

IsNum(z) == IsNumber(z.x) /\ IsNumber(z.y)

SolveError(c) ==
    IF is_zero(c) THEN "redundant equation" ELSE "inconsistent equation"

\* C4. When left - right simplifies to a number, solve fails, with
\* "redundant equation" for zero and "inconsistent equation" otherwise,
\* and changes neither env nor translation; hence x = k' for x solved to k
\* fails as redundant when k' is k and as inconsistent when it is not.
C4_RedundantOrInconsistent ==
    [][/\ (AtEq /\ IsZeroPoly(Linear_sub(Linear_sub(Left.x, Right.x),
                                          linear(Linear_sub(Left.x, Right.x).c, NoTerms)))) =>
              /\ err' = SolveError(Linear_sub(Left.x, Right.x).c)
              /\ env' = env /\ translation' = translation
       /\ (AtEq /\ SolvedVar(Left) /\ IsNum(Right)) =>
              /\ err' = IF is_zero(RSub(Left.x.c, Right.x.c))
                           /\ is_zero(RSub(Left.y.c, Right.y.c))
                        THEN "redundant equation"
                        ELSE "inconsistent equation"
              /\ env' = env /\ translation' = translation
      ]_vars

\* C5. An equation is rejected as redundant only if its real and its
\* imaginary part both reduce to zero; an equation of a real number to a
\* variable whose imaginary part is known and whose real part is not is
\* solved.
C5_RedundantOnlyAsAWhole ==
    [][/\ (err = "" /\ err' = "redundant equation") =>
              /\ AtEq
              /\ IsZeroPoly(Linear_sub(Left.x, Right.x))
              /\ IsZeroPoly(Linear_sub(reduce(env, Left.y), reduce(env, Right.y)))
       /\ (/\ AtEq /\ IsNum(Right) /\ IsZeroPoly(Right.y)
           /\ IsNumber(reduce(env, Left.y)) /\ ~IsNumber(Left.x)
           /\ is_zero(reduce(env, Left.y).c)) =>
              \A m \in equation(Machine) : m.err = ""
      ]_vars

\* The expressions that are numeric constants: numbers and i only.
RECURSIVE IsLiteral(_)
IsLiteral(e) ==
    \/ e = <<>>
    \/ /\ Head(e).t # "anon"
       /\ Head(e).t = "var" => Head(e).name = "i"
       /\ IsLiteral(Tail(e))

UserVars == {"v", "w"}

\* C10. Where a variable v is not fully determined, v = k for a numeric
\* constant k succeeds and leaves the translation entries of both parts of
\* v holding the formatted parts of k.
C10_ConstantRoundTrip ==
    \A v \in UserVars :
        (/\ AtEq /\ prev = <<TVar(v)>> /\ IsLiteral(cur)
         /\ ~(IsConstant(Key(v, "x")) /\ IsConstant(Key(v, "y")))) =>
            \A m \in equation(Machine) :
                /\ m.err = ""
                /\ Key(v, "x") \in DOMAIN m.translation
                /\ Key(v, "y") \in DOMAIN m.translation
                /\ m.translation[Key(v, "x")] = s(num_zap(Right.x.c))
                /\ m.translation[Key(v, "y")] = s(num_zap(Right.y.c))

\* The statement a = b.
Statement(a, b) == a \o b \o Eq \o Cmd

\* Two statements made of the model's expressions.
StatementPairs ==
    {q \in Exprs \X Exprs \X Exprs \X Exprs :
        Anons(q[1]) + Anons(q[2]) + Anons(q[3]) + Anons(q[4]) <= Len(AnonNames)}

\* No statement has been read yet.
AtStart ==
    Running /\ pc = "left" /\ stack = <<>> /\ input = <<>> /\ neqs = 0

HasEntries(m, v) ==
    /\ m.err = ""
    /\ Key(v, "x") \in DOMAIN m.translation
    /\ Key(v, "y") \in DOMAIN m.translation

\* C11. Two equations that determine a variable v give v the same
\* translation entries in either order: whenever every run of both orders
\* succeeds and defines both entries of v, all these runs define the same
\* entries.
C11_EitherOrder ==
    AtStart =>
        \A q \in StatementPairs, v \in UserVars :
            LET runs == Calls({Machine}, Statement(q[1], q[2]) \o Statement(q[3], q[4]))
                        \cup Calls({Machine}, Statement(q[3], q[4]) \o Statement(q[1], q[2]))
            IN  (\A m \in runs : HasEntries(m, v)) =>
                    \A m, n \in runs :
                        /\ m.translation[Key(v, "x")] = n.translation[Key(v, "x")]
                        /\ m.translation[Key(v, "y")] = n.translation[Key(v, "y")]

\* What a run ends with: success or failure, the variables env defines by a
\* constant, and the translation table.
Ending(m) ==
    [ok |-> m.err = "",
     constants |-> {k \in DOMAIN m.env : IsLinear(m.env[k]) /\ IsNumber(m.env[k])},
     translation |-> m.translation]

\* C12. The term solve elects among several of the same magnitude does
\* not change the outcome: all runs of the same two statements end alike.
C12_TieBreaking ==
    AtStart =>
        \A q \in StatementPairs :
            Cardinality({Ending(m) : m \in Calls({Machine},
                Statement(q[1], q[2]) \o Statement(q[3], q[4]))}) = 1

\* The constructor about to run.
AtOp(t) == Next1(t)

\* z holds no variable once simplified: both parts are constants.
IsConstantValue(z) == IsNumber(Linear_zap(z.x)) /\ IsNumber(Linear_zap(z.y))

\* z has only terms that simplification drops, and at least one.
OnlyZeroTerms(z) ==
    /\ IsConstantValue(z)
    /\ ~(IsNumber(z.x) /\ IsNumber(z.y))

\* k * p for a number k
Scaled(k, p) == linear(RMul(k, p.c), [v \in DOMAIN p.ls |-> RMul(k, p.ls[v])])

\* The polynomial z scaled by the complex constant kx + ky i.
ComplexScaled(kx, ky, z) ==
    complex(Linear_sub(Scaled(kx, z.x), Scaled(ky, z.y)),
            Linear_add(Scaled(kx, z.y), Scaled(ky, z.x)))

SameValue(z1, z2) ==
    /\ SamePoly(Linear_zap(z1.x), Linear_zap(z2.x))
    /\ SamePoly(Linear_zap(z1.y), Linear_zap(z2.y))

NonLinear == "muliplier and multiplicand both not a number"

\* C13. A product succeeds exactly when one operand is a constant in both
\* parts; otherwise it fails with the non-linear error; on success the
\* other operand is scaled by the constant.
C13_ProductIffConstant ==
    [][AtOp("mul") =>
          /\ err' = "" <=> (IsConstantValue(Left) \/ IsConstantValue(Right))
          /\ err' # "" => err' = NonLinear
          /\ (err' = "" /\ IsConstantValue(Right)) =>
                 SameValue(stack'[Len(stack')],
                           ComplexScaled(Linear_zap(Right.x).c, Linear_zap(Right.y).c, Left))
          /\ (err' = "" /\ IsConstantValue(Left)) =>
                 SameValue(stack'[Len(stack')],
                           ComplexScaled(Linear_zap(Left.x).c, Linear_zap(Left.y).c, Right))
      ]_vars

\* The errors that say an operand is no number.
NotANumber ==
    {NonLinear, "divisor is not a number", "exponent not a number",
     "exponentiation base not a number"}

\* C14. An operand whose terms all have a zero coefficient counts as a
\* number: as a multiplier it makes the product succeed, and as a divisor
\* or an exponent it raises no error that says it is no number.
C14_SimplifiedBeforeTested ==
    [][/\ (AtOp("mul") /\ (OnlyZeroTerms(Left) \/ OnlyZeroTerms(Right))) => err' = ""
       /\ ((AtOp("div") \/ AtOp("pow")) /\ OnlyZeroTerms(Right)) => err' \notin NotANumber
      ]_vars

Finite(x) == x[2] # 0

\* C15. A quotient by a constant that is zero within tolerance fails, and
\* no entry of env or of the translation table comes from such a quotient:
\* every number they hold is finite.
C15_DivisionByZeroFails ==
    [][/\ (AtOp("div") /\ IsNumber(Right.x) /\ IsNumber(Right.y)
            /\ is_zero(Right.x.c) /\ is_zero(Right.y.c)) => err' # ""
       /\ \A k \in DOMAIN translation' : translation'[k].digits >= 0
       /\ \A k \in DOMAIN env' :
              IsLinear(env'[k]) =>
                  /\ Finite(env'[k].c)
                  /\ \A v \in DOMAIN env'[k].ls : Finite(env'[k].ls[v])
      ]_vars

NonZeroNumber(z) ==
    /\ IsNumber(z.x) /\ IsNumber(z.y)
    /\ ~(is_zero(z.x.c) /\ is_zero(z.y.c))

\* C16. Division by a non-zero constant is the inverse of multiplication
\* by it: the quotient times the divisor is the dividend; and the factor
\* -1/k solve normalises with, times k, is -1.
C16_DivisionInverts ==
    [][/\ (AtOp("div") /\ NonZeroNumber(Right)) =>
              /\ err' = ""
              /\ SameValue(Complex_mul(stack'[Len(stack')], Right), Left)
       /\ AtEq =>
              \A v \in Pivots(Linear_sub(Left.x, Right.x)) :
                  LET k == Linear_zap(Linear_sub(Left.x, Right.x)).ls[v]
                  IN  RMul(RDiv(R(-1), k), k) = R(-1)
      ]_vars

\* C16 witness: a variable has been divided by a constant with an
\* imaginary part, and both parts of the quotient hold both parts of the
\* variable.
C16_Witness ==
    /\ err = "" /\ cur # <<>> /\ cur[Len(cur)].t = "div"
    /\ Cardinality(DOMAIN Linear_zap(stack[Len(stack)].x).ls) = 2
    /\ Cardinality(DOMAIN Linear_zap(stack[Len(stack)].y).ls) = 2

\* The value on top of the stack after the step.
Result == stack'[Len(stack')]

\* z is what mk_var pushes for the name f.
WrittenAs(z, f) == z = variable(env, f)

InFunctionPosition(f) == AtOp("app") /\ WrittenAs(Left, f)

\* C17. mk_var on the name of a built-in function pushes the function's
\* entry of env, so that the function applied to a constant argument of
\* its domain succeeds, with a constant as value.
C17_FunctionNamePushesFunction ==
    [][\A f \in FunNames :
          /\ (AtOp("var") /\ Head(input).name = f) => Result = env[Key(f, "")]
          /\ (InFunctionPosition(f) /\ IsNum(Right) /\ is_zero(Right.y.c)) =>
                 /\ err' = ""
                 /\ IsNum(Result)
      ]_vars

\* The messages of application, for the names written in function position.
NotAFunction == {f \o " not a function" : f \in Applied}
NonConstantArg == {"function " \o f \o " not applied to a number" : f \in Applied}

\* C18. mk_app fails with the not-a-function error when the function
\* position holds no function, and with the non-constant-argument error
\* when a function is applied to a polynomial that is not a constant; in
\* both cases nothing is pushed and env is unchanged.
C18_ApplicationErrors ==
    [][AtOp("app") =>
          /\ (\A f \in FunNames : ~WrittenAs(Left, f)) =>
                 err' \in NotAFunction /\ stack' = stack /\ env' = env
          /\ ((\E f \in FunNames : WrittenAs(Left, f)) /\ ~IsConstantValue(Right)) =>
                 err' \in NonConstantArg /\ stack' = stack /\ env' = env
      ]_vars

DomainError == {"rad argument must be real", "deg argument must be real"}

\* C19. rad and deg fail, with a domain error, exactly when the imaginary
\* part of their argument is not zero within tolerance; otherwise they
\* give a real result.  Stated of the functions and of their application.
C19_RadDegDomain ==
    [][\A f \in {"rad", "deg"} :
          (InFunctionPosition(f) /\ IsNum(Right)) =>
              /\ MathFun(f, Right.x.c, Right.y.c).err # "" <=> ~is_zero(Right.y.c)
              /\ MathFun(f, Right.x.c, Right.y.c).err # "" =>
                     MathFun(f, Right.x.c, Right.y.c).err \in DomainError
              /\ err' # "" <=> ~is_zero(Right.y.c)
              /\ err' # "" => err' \in DomainError
              /\ err' = "" => IsNum(Result) /\ is_zero(Result.y.c)
      ]_vars

\* C20. A power succeeds exactly when base and exponent are numbers and
\* the exponent is real; its value is exp(log(base) * exponent) in both
\* parts, so that 1^k is 1 and a positive real base gives a real value.
C20_Power ==
    [][AtOp("pow") =>
          /\ err' = "" <=> (IsNum(Left) /\ IsNum(Right) /\ is_zero(Right.y.c))
          /\ err' = "" =>
                 /\ IsNum(Result)
                 /\ Result.x.c = exp_log(Left.x.c, Left.y.c, Right.x.c)[1]
                 /\ Result.y.c = exp_log(Left.x.c, Left.y.c, Right.x.c)[2]
          /\ (err' = "" /\ Left = number(R(1))) => Result = number(R(1))
          /\ (err' = "" /\ Left.x.c[1] > 0 /\ is_zero(Left.y.c)) => is_zero(Result.y.c)
      ]_vars

\* The operands of a mediation about to be made, as written: s[a, b].
MedScale == stack[Len(stack) - 2]
MedLeft == stack[Len(stack) - 1]
MedRight == stack[Len(stack)]

RealPart(z) == complex(z.x, linear(R(0), NoTerms))

\* left + re(scale) * (right - left), the product written out for the
\* factor that is a number.
Mediated(scale, left, right) ==
    LET d == Complex_sub(right, left)
        t == Linear_zap(scale.x)
    IN  Complex_add(left,
            IF IsNumber(t) THEN ComplexScaled(t.c, R(0), d)
            ELSE ComplexScaled(Linear_zap(d.x).c, Linear_zap(d.y).c, RealPart(scale)))

C29_ValueSemantics ==
    [][(AtEq /\ err' = "") =>
          \A j \in DOMAIN stack : SameValue(stack'[j], stack[j])
      ]_vars

\* C30. The entries the initial environment defines are stable: the math
\* functions and the constants i and pi are what they were at start after
\* any sequence of equations, and no key of theirs is elected by solve.
C30_SeededStable ==
    /\ \A k \in Seeded : k \in DOMAIN env /\ env[k] = InitEnv[k]
    /\ pivot \notin Seeded

\* C30 witness: two solves have returned, the second in an equation that
\* names i, and a later equation has failed.
C30_Witness ==
    /\ nsolved >= 3
    /\ err # ""
    /\ \E h \in hist : \E j \in DOMAIN h.r : h.r[j].name = "i"

\* A reference to a variable part in either spelling, id#x, id#y, id#r or
\* id#i: its length at the head of cs, 0 if there is none.
RefLen(cs) ==
    LET n == IdLen(cs)
    IN  IF n > 0 /\ Len(cs) >= n + 2 /\ cs[n + 1] = "#"
           /\ cs[n + 2] \in {"x", "y", "r", "i"}
        THEN n + 2 ELSE 0

RefKey(cs) ==
    Key(Join(SubSeq(cs, 1, RefLen(cs) - 2)),
        IF cs[RefLen(cs)] \in {"x", "r"} THEN "x" ELSE "y")

\* The text read so far on this line does not end inside an identifier.
TokenStart == lex.line = <<>> \/ ~IsIdChar(lex.line[Len(lex.line)])

\* C22. In text mode a reference in either spelling to a variable part
\* that has a translation is replaced by it: v#r and v#x by the real part,
\* v#i and v#y by the imaginary part.
C22_BothSpellings ==
    [][(InRule("INITIAL") /\ TokenStart /\ RefLen(lex.rest) > 0
        /\ RefKey(lex.rest) \in DOMAIN translation) =>
           lex'.out = Append(lex.out, Val(translation[RefKey(lex.rest)]))
      ]_vars

\* The characters matched by the step.
Read == SubSeq(lex.rest, 1, Len(lex.rest) - Len(lex'.rest))

\* C23. Text mode changes nothing but translation hits: a reference with
\* no translation is written as read, every other character is copied
\* in order, and env, translation and the stack are left alone.
C23_TextUnchanged ==
    [][InRule("INITIAL") =>
          /\ UNCHANGED <<env, translation, stack>>
          /\ IF Read = <<"\n">>
             THEN lex'.nl = lex.nl + 1 /\ lex'.out = <<>>
             ELSE /\ lex'.nl = lex.nl
                  /\ lex'.out = lex.out \o
                        (IF VarLen(Read) = Len(Read) /\ VarKey(Read) \in DOMAIN translation
                         THEN <<Val(translation[VarKey(Read)])>>
                         ELSE IF Read = Lineqpp /\ lex.line = <<>> THEN <<>>
                         ELSE Chrs(Read))
      ]_vars

\* C23 witness: the reference v#x has been read at the start of a line
\* while v#x had no translation, and has been written as it is.
C23_Witness ==
    /\ lex.line = <<"v", "#", "x">>
    /\ lex.out = Chrs(<<"v", "#", "x">>)
    /\ Key("v", "x") \notin DOMAIN translation

\* C24. Line numbering is preserved while no error occurs: as many
\* newlines are written as are read, so that what is written for a line of
\* the input is on the line of the same number, and nothing is written on
\* a line of equations.
C24_LineNumbering ==
    err = "" =>
        /\ lex.nl = lex.nin
        /\ lex.start = "leq" => lex.out = <<>>

\* C24 witness: two lines of equations have been read, one of them
\* continued by a backslash, and text of the third line is written.
C24_Witness ==
    /\ err = "" /\ lex.nin = 2 /\ lex.out # <<>>
    /\ Key("v", "x") \in DOMAIN translation
    /\ lex.calls = <<TVar("v"), TNum(<<1, 2>>), EqCall, CmdCall>>

HasLineqpp(cs) == Len(cs) >= Len(Lineqpp) /\ SubSeq(cs, 1, Len(Lineqpp)) = Lineqpp

\* The changes of mode a step of the scanner may make.
ModeStep ==
    /\ lex.nread = 0 => lex.start = "INITIAL"
    /\ (lex.start = "INITIAL" /\ lex'.start = "leq") =>
          lex.line = <<>> /\ HasLineqpp(lex.rest)
    /\ (InRule("INITIAL") /\ lex.line = <<>> /\ HasLineqpp(lex.rest)) =>
          lex'.start = "leq"
    /\ (InRule("INITIAL") /\ lex.line # <<>> /\ HasLineqpp(lex.rest)) =>
          lex'.start = "INITIAL" /\ lex'.out = Append(lex.out, Chr("#"))
    /\ (InRule("leq") /\ IsContinuation(lex.rest)) =>
          lex'.start = "leq" /\ lex'.line = <<>>
    /\ (InRule("leq") /\ Head(lex.rest) = "\n") => lex'.start = "INITIAL"
    /\ (lex.start = "leq" /\ lex'.start = "INITIAL") => Head(lex.rest) = "\n"

\* C25. The scanner starts in text mode; it enters equation mode only on
\* #lineqpp at the start of a line; in equation mode backslash-newline
\* keeps the mode and a newline returns to text mode; #lineqpp elsewhere
\* in a line of text is copied and does not change the mode.
C25_ModeTransitions == [][ModeStep]_vars

\* C25 witness: #lineqpp has been copied from the middle of a line of text.
C25_Witness ==
    /\ lex.start = "INITIAL"
    /\ lex.out = Chrs(<<" ">> \o Lineqpp)

\* The solver once the equations read so far are all made: the parser
\* holds back the last of them until it has the next token.
Eager ==
    IF lex.state \in {"E2id", "E2num"}
    THEN {m \in equation(Machine) : m.err = ""}
    ELSE {Machine}

\* C26. A reference in the text is replaced by the value as soon as the
\* equations read before it determine the value, also when the last of
\* them is followed neither by ';' nor by '='; and it is not replaced
\* before.
C26_AvailableAtOnce ==
    [][(InRule("INITIAL") /\ VarLen(lex.rest) > 0) =>
          \A m \in Eager :
              lex'.out = lex.out \o
                  translate_text(m.translation, SubSeq(lex.rest, 1, VarLen(lex.rest)))
      ]_vars

\* The solver before the first call.
Machine0 ==
    [env |-> InitEnv, translation |-> [k \in {} |-> 0], stack |-> <<>>,
     whatever |-> 0, verbose |-> verbose, err |-> "",
     pivot |-> NoKey, nsolved |-> 0, trace |-> <<>>]

\* C27. A statement may span lines of equations with lines of text in
\* between: the stack, env and the translation table are at any time
\* those the same calls give when nothing is read in between.
C27_SpanningStatement ==
    \E m \in Calls({Machine0}, lex.calls) :
        /\ m.stack = stack
        /\ m.env = env
        /\ m.translation = translation

\* C27 witness: a reference was looked up while the stack held the first
\* operand of a statement, and the statement has been solved since.
C27_Witness ==
    /\ lex.held /\ lex.state = "P0" /\ err = ""
    /\ Key("v", "x") \in DOMAIN translation

\* C28. Every error is fatal: nothing runs after an error or after the
\* end of the parse; an error is reported once and gives the exit status
\* 1; a run without error ends with the status 0.
C28_ErrorsAreFatal ==
    [][/\ Scanning
       /\ lex'.exit = 1 <=> err' # ""
       /\ lex'.exit = 0 => lex'.rest = <<>>
       /\ lex'.reports = IF err' # "" THEN 1 ELSE 0
      ]_vars

\* C28 witness: an equation has raised an error of the solver, and part
\* of the input read has not been scanned.
C28_Witness ==
    /\ lex.exit = 1 /\ err \notin {"", "syntax error"}
    /\ lex.rest # <<>>

\* The coefficient of u in p, zero when p has no term in u.
Coef(p, u) == IF u \in DOMAIN p.ls THEN p.ls[u] ELSE R(0)

\* simplify((P without the term in v) + k * p), k the coefficient of v in
\* P, written term by term.
Substituted(P, p, v) ==
    LET k == P.ls[v]
        co(u) == RAdd(IF u = v THEN R(0) ELSE Coef(P, u), RMul(k, Coef(p, u)))
        us == {u \in DOMAIN P.ls \cup DOMAIN p.ls : ~is_zero(co(u))}
    IN  [c |-> num_zap(RAdd(P.c, RMul(k, p.c))), ls |-> [u \in us |-> co(u)]]

\* The translation table holds the same for k before and after the step.
NothingRecorded(k) ==
    /\ (k \in DOMAIN translation') = (k \in DOMAIN translation)
    /\ k \in DOMAIN translation => translation'[k] = translation[k]

\* A solve has returned in this step.
Solved == err' = "" /\ nsolved' = nsolved + 1

Simplified(p) ==
    /\ \A u \in DOMAIN p.ls : ~is_zero(p.ls[u])
    /\ is_zero(p.c) => p.c = R(0)

\* C32. zap is idempotent and exact: after a call the polynomial is
\* simplified, and a call on a polynomial zap has returned leaves every
\* term and the constant as they are.
C32_ZapIdempotent ==
    [][pc = "zap" =>
          /\ Simplified(stack'[1].x)
          /\ neqs >= 1 => stack' = stack
          /\ Linear_zap(stack'[1].x) = stack'[1].x
    ]_vars

\* C32 witness: zap was called twice on a polynomial whose constant and
\* whose term in v#x were below the tolerance and not 0, and whose term
\* in w#x was the tolerance itself, which stays.
C32_Witness ==
    /\ pc = "zap" /\ neqs = 2 /\ cur # <<>>
    /\ cur[1].c = <<1, 2 * TolDen>>
    /\ Key("v", "x") \in DOMAIN cur[1].ls
    /\ cur[1].ls[Key("v", "x")] = <<-1, 2 * TolDen>>
    /\ stack[1].x = linear(R(0), [u \in {Key("w", "x")} |-> <<1, TolDen>>])

\* C33. Every polynomial of the environment is simplified: none has a
\* term whose coefficient is zero under the tolerance, so it is a number
\* exactly when it has no term.
C33_EnvSimplified ==
    \A k \in Dependent :
        /\ \A u \in DOMAIN env[k].ls : ~is_zero(env[k].ls[u])
        /\ IsNumber(Linear_zap(env[k])) <=> DOMAIN env[k].ls = {}

\* C33 witness: after v = (2-i)*w, the real part of (2-i)*w = .5 defines
\* w#x by a polynomial in w#y, and the substitution into the definition
\* of v#x, 2*w#x + w#y, has cancelled the term in w#y: v#x is a number.
C33_Witness ==
    /\ err = "" /\ pc = "eqy" /\ nsolved = 3
    /\ pivot = Key("w", "x")
    /\ Key("w", "y") \in DOMAIN env[Key("w", "x")].ls
    /\ Key("v", "x") \in Dependent
    /\ env[Key("v", "x")] = [c |-> <<1, 2>>, ls |-> NoTerms]

\* The polynomial the step hands to solve, left - right of the real parts
\* or of the reduced imaginary parts, after the p:zap() solve begins with.
Solving == (AtEq \/ pc = "eqy") /\ err = ""

EqP ==
    LET z == zap_operands(Machine)
    IN  Linear_zap(IF pc = "eqy"
                   THEN Linear_sub(reduce(env, Left.y), reduce(env, Right.y))
                   ELSE Linear_sub(Arg(z, 1).x, Arg(z, 0).x))

\* |a| <= |b| as Lua compares doubles: false when either is nan.
AtMost(a, b) == a # <<0, 0>> /\ b # <<0, 0>> /\ ~RLess(RAbs(b), RAbs(a))

\* C34. Pivot election: when the polynomial solved is no number, solve
\* elects a term of it, no coefficient of the polynomial is greater in
\* absolute value than the coefficient of that term, and no coefficient
\* of the definition the pivot gets is greater than 1 in absolute value.
C34_PivotElection ==
    [][(Solving /\ ~IsNumber(EqP)) =>
          /\ err' = ""
          /\ pivot' \in DOMAIN EqP.ls
          /\ \A u \in DOMAIN EqP.ls : AtMost(EqP.ls[u], EqP.ls[pivot'])
          /\ \A u \in DOMAIN env'[pivot'].ls : AtMost(env'[pivot'].ls[u], R(1))
    ]_vars

\* The scanner is at the token ? and mk_avar will be called.
AtAvar == InRule("leq") /\ Head(lex.rest) = "?"

\* The variable k exists: it is defined, or it occurs in a definition, in
\* the translation table or in an expression on the stack.
Exists(k) ==
    \/ k \in DOMAIN env \cup DOMAIN translation
    \/ \E w \in Dependent : k \in DOMAIN env[w].ls
    \/ \E j \in DOMAIN stack : k \in DOMAIN stack[j].x.ls \cup DOMAIN stack[j].y.ls

Synthesised == {AnonNames[j] : j \in DOMAIN AnonNames}

\* The variable of name n, as variable() makes it when n is not defined.
NewVariable(n) ==
    complex(linear(R(0), [u \in {Key(n, "x")} |-> R(1)]),
            linear(R(0), [u \in {Key(n, "y")} |-> R(1)]))

AvarStep ==
    /\ whatever' >= whatever
    /\ (AtAvar /\ err' = "") =>
          /\ whatever' = whatever + 1
          /\ \A sfx \in {"x", "y"} : ~Exists(Key(AnonNames[whatever + 1], sfx))
          /\ \A j \in DOMAIN lex.calls :
                lex.calls[j].t = "var" => lex.calls[j].name # AnonNames[whatever + 1]
          /\ \E j \in DOMAIN stack' : stack'[j] = NewVariable(AnonNames[whatever + 1])
    /\ (InRule("leq") /\ IdLen(lex.rest) > 0) =>
          Join(SubSeq(lex.rest, 1, IdLen(lex.rest))) \notin Synthesised
    /\ (InRule("INITIAL") /\ VarLen(lex.rest) > 0) =>
          VarKey(SubSeq(lex.rest, 1, VarLen(lex.rest)))[1] \notin Synthesised

\* C35. Anonymous variables: the counter never decreases; every token ?
\* increments it and yields a variable that is neither defined nor
\* occurs anywhere so far, and that no identifier read so far names; no
\* identifier the scanner makes a variable of, and no reference it looks
\* up in text mode, has the name of an anonymous variable.
C35_AnonymousFresh == [][AvarStep]_vars

\* C35 witness: two tokens ? have made 0z and 1z, both solved, and the
\* text 0z#x has been copied (its part z#x was looked up and not found).
C35_Witness ==
    /\ err = "" /\ whatever = 2
    /\ Key("0z", "x") \in DOMAIN translation
    /\ Key("1z", "x") \in DOMAIN translation
    /\ lex.out = Chrs(<<"0", "z", "#", "x">>)

\* The number of values a constructor takes from the stack.
Operands(t) ==
    CASE t \in {"add", "sub", "mul", "div", "pow", "app", "eq"} -> 2
      [] t = "neg" -> 1
      [] t = "med" -> 3
      [] OTHER -> 0

\* a op b
Applied2(t, a, b) ==
    CASE t = "add" -> Complex_add(a, b)
      [] t = "sub" -> Complex_sub(a, b)
      [] t = "mul" -> Complex_mul(a, b)
      [] t = "div" -> Complex_div(a, b)

StackStep ==
    /\ (Running /\ pc \in {"left", "eqns"} /\ input # <<>>) =>
          LET t == Head(input).t
              n == Len(stack)
          IN  /\ n >= Operands(t)
              /\ (err' = "" /\ t # "eq") =>
                    /\ Len(stack') = n - Operands(t) + 1
                    /\ \A j \in 1..(n - Operands(t)) : stack'[j] = stack[j]
              /\ (err' = "" /\ t \in {"add", "sub", "mul", "div"}) =>
                    SameValue(Result, Applied2(t, stack[n - 1], stack[n]))
              /\ (err' = "" /\ t = "neg") => SameValue(Result, Complex_unm(stack[n]))
    /\ (Running /\ pc = "eqy" /\ err' = "") => Len(stack') = Len(stack) - 1
    /\ (pc = "eqns" /\ pc' = "left") => Len(stack) = 1 /\ stack' = <<>>

\* C36. Stack discipline: every constructor finds on the stack the
\* operands it takes and leaves one value in their place, the values
\* below untouched; a binary constructor applies its operation to the
\* second value from the top and the top, in this order; mk_eq leaves
\* one value in place of the two sides; mk_cmd finds one value on the
\* stack and leaves the stack empty.
C36_StackDiscipline == [][StackStep]_vars

\* C36 witness: the statement v = (2-i)*w, or one that ends with this
\* equation, has been read to its end and mk_cmd has run.
C36_Witness ==
    /\ err = "" /\ pc = "left" /\ stack = <<>> /\ nsolved >= 2
    /\ \E h \in hist :
          h.r = <<TNum(R(2)), TVar("i"), TOp("sub"), TVar("w"), TOp("mul")>>

\* The two sides equation_part is called with in this step, as it shows
\* them: zapped.
ShownLeft ==
    Linear_zap(IF pc = "eqy" THEN reduce(env, Left.y) ELSE Left.x)

ShownRight ==
    Linear_zap(IF pc = "eqy" THEN reduce(env, Right.y) ELSE Right.x)

\* The lines of the trace after the first two.
Updates == 3..Len(trace')

TraceStep ==
    Solving =>
        IF ~verbose THEN trace' = <<>>
        ELSE /\ Len(trace') >= 1
             /\ trace'[1] = EqLine(ShownLeft, ShownRight)
             /\ err' # "" => Len(trace') = 1
             /\ err' = "" =>
                   /\ Len(trace') >= 2
                   /\ trace'[2] = IsLine(pivot', env'[pivot'])
                   /\ \A j \in Updates :
                         trace'[j].kind = "is" /\ trace'[j].var \in Dependent
                   /\ \A w \in Dependent :
                         IF pivot' \in DOMAIN env[w].ls
                         THEN /\ Cardinality({j \in Updates : trace'[j].var = w}) = 1
                              /\ \E j \in Updates : trace'[j] = IsLine(w, env'[w])
                         ELSE \A j \in Updates : trace'[j].var # w

\* C37. Order of the debug trace: with -d, a call of equation_part, for
\* the real or for the imaginary parts, first writes the line
\* "left = right"; if solve returns, the next line is that of the pivot
\* and its definition, and after it comes one line "w is P" for every
\* dependent variable w whose definition referred to the pivot, with the
\* definition w has now; a dependent variable whose definition did not
\* refer to the pivot gets no line.  Without -d nothing is written.
C37_TraceOrder == [][TraceStep]_vars

\* C37 witness: with -d an equation has been solved whose trace has the
\* line of the equation, the line of the pivot and a line for a rewritten
\* definition, while another variable the input defined has no line.
C37_Witness ==
    /\ verbose /\ err = "" /\ Len(trace) >= 3
    /\ \E w \in Dependent \ Seeded :
          w # pivot /\ \A j \in DOMAIN trace : trace[j].var # w






====
